---- MODULE Spec2Model ----
(***************************************************************************)
(* git-integrate: merge every pull-request branch carrying a label into a  *)
(* destination branch.  The model follows src/main.rs: main() is one       *)
(* sequential process whose position is pc; every external call (argument  *)
(* list, git2 library calls, git subprocesses, the GraphQL request) is a   *)
(* step whose outcome is chosen from the outcomes its Rust type allows.    *)
(*                                                                         *)
(* An Option<T> is modelled as a sequence of length at most one:           *)
(* None = <<>>, Some(x) = <<x>>.                                           *)
(***************************************************************************)
EXTENDS Integers, Sequences, FiniteSets, TLC

VARIABLES
    args,         \* env::args().skip(1)
    remote_head,  \* name of the default branch of the remote origin
    dest_start,   \* Option: the remote branch the destination was last reset to
    pc,           \* position of main()
    exit_status,  \* <<>> while running, <<code>> once the process has ended
    dest_branch,  \* Option: second argument once parsed
    response,     \* Option: the decoded Response<ResponseData> of branches()
    branches,     \* the Vec<String> returned by branches()
    idx,          \* how many items the for loop of main() has taken
    branch,       \* Option: the loop variable of main(), merge_branch's argument
    statuses,     \* the last result of repository.statuses(None)
    log,          \* external operations performed, in order
    out           \* lines printed (stdout by println!, stderr by panics)

vars == <<args, remote_head, dest_start, pc, exit_status, dest_branch, response, branches, idx, branch,
          statuses, log, out>>

----------------------------------------------------------------------------
(* Bounds of the model *)

\* longest pull_requests.nodes list of a response
MaxNodes == 3
\* most entries in a repository status list
MaxPaths == 2

----------------------------------------------------------------------------
(* Values *)

\* head_ref_name values; the same name may occur in several pull requests
BranchNames == {"feature-a", "feature-b"}

\* the argument lists tried: none, label only, label and destination
ArgLists == {<<>>, <<"ready">>, <<"ready", "release">>}

\* names a remote's default branch may have
RemoteHeads == {"master", "main"}

\* line 151: the start point given to git checkout -B is origin/master
CheckoutStartPoint == "master"

\* exit status of a Rust process whose main thread panicked
PanicStatus == 101

\* git2::Status is a bit set; a status entry carries a non-empty combination
StatusFlags == {"CONFLICTED", "WT_MODIFIED"}
CONFLICTED == {"CONFLICTED"}
StatusEntries == (SUBSET StatusFlags) \ {{}}

SeqsUpTo(S, n) == UNION {[1..k -> S] : k \in 0..n}

StatusLists == SeqsUpTo(StatusEntries, MaxPaths)

Option(S) == {<<>>} \cup {<<x>> : x \in S}

\* label_branches::ResponseData as far as branches() reads it
Nodes == [head_ref_name : BranchNames]
NodeLists == SeqsUpTo(Option(Nodes), MaxNodes)
PullRequests == [nodes : Option(NodeLists)]
Repositories == [pull_requests : PullRequests]
ResponseData == [repository : Option(Repositories)]
Responses == [data : Option(ResponseData)]

\* io::Result<ExitStatus> of Command::status(): the subprocess ran and
\* succeeded, ran and failed, or could not be run (Err)
SubResults == {"ok", "fail", "err"}

----------------------------------------------------------------------------
(* Control-flow results of a step *)

Goto(l) == [pc |-> l, exit |-> <<>>]
Exit(c) == [pc |-> "exited", exit |-> <<c>>]
Panic == Exit(PanicStatus)

\* one external operation: op is its kind, i the loop iteration it belongs to
\* (0 before the loop), arg the branch name passed to it (an Option), res its
\* result, st the status list a status query returned
LogEntry(op, i, arg, res, st) ==
    [op |-> op, i |-> i, arg |-> arg, res |-> res, st |-> st]
Line(stream, msg, names) == [stream |-> stream, msg |-> msg, names |-> names]

\* variant: the progress line does not name the branch
MergingLineUnnamed(b) == Line("stdout", "Merging", <<>>)

\* line 78
MergingLine(b) == Line("stdout", "Merging", b)

\* lines 123-127
ConflictLine == Line("stdout", "Merge conflict detected", <<>>)

\* variant: the failure line does not name the branch
CommitFailureLineUnnamed(b) == Line("stdout", "Failure mergeing branch", <<>>)

\* line 135
CommitFailureLine(b) == Line("stdout", "Failure mergeing branch", b)

----------------------------------------------------------------------------
(* branches(): lines 100-108 *)

\* line 102: .and_then(|x| x.repository)
AndThenRepository(data) == IF data = <<>> THEN <<>> ELSE data[1].repository

\* line 103: .and_then(|x| x.pull_requests.nodes)
AndThenNodes(repo) == IF repo = <<>> THEN <<>> ELSE repo[1].pull_requests.nodes

\* line 104: .unwrap_or(vec![])
UnwrapOr(opt, d) == IF opt = <<>> THEN d ELSE opt[1]

\* line 107: the closure |x| x.map(|y| y.head_ref_name)
MapHeadRefName(x) == IF x = <<>> THEN <<>> ELSE <<x[1].head_ref_name>>

\* variant: collection stops at the first null entry
RECURSIVE MapWhile(_)
MapWhile(s) ==
    IF s = <<>> \/ s[1] = <<>> THEN <<>>
    ELSE MapHeadRefName(s[1]) \o MapWhile(Tail(s))

\* lines 105-108: .iter().cloned().filter_map(..).collect()
RECURSIVE FilterMap(_)
FilterMap(s) ==
    IF s = <<>> THEN <<>>
    ELSE MapHeadRefName(s[1]) \o FilterMap(Tail(s))

Branches(resp) ==
    FilterMap(UnwrapOr(AndThenNodes(AndThenRepository(resp.data)), <<>>))

----------------------------------------------------------------------------
(* Decisions of main() and merge_branch() *)

\* variant: only the label is required
OnArgsLabelOnly(a) == IF Len(a) < 1 THEN Panic ELSE Goto("open")

\* lines 26-34
OnArgs(a) == IF Len(a) < 2 THEN Panic ELSE Goto("open")

\* variant: a failed fetch unwinds like an Err
OnFetchPanics(r) == IF r = "ok" THEN Goto("checkout") ELSE Panic

\* variant: the exit status of git fetch is not looked at
OnFetchIgnoresFailure(r) == IF r = "err" THEN Panic ELSE Goto("checkout")

\* variant: the checkout is left out
OnFetchSkipsCheckout(r) ==
    IF r = "err" THEN Panic ELSE IF r = "fail" THEN Exit(1) ELSE Goto("resolve")

\* lines 61-63
OnFetch(r) ==
    IF r = "err" THEN Panic ELSE IF r = "fail" THEN Exit(1) ELSE Goto("checkout")

\* variant: the exit status of git checkout is not looked at
OnCheckoutIgnoresFailure(r) == IF r = "err" THEN Panic ELSE Goto("resolve")

\* lines 65-70
OnCheckout(r) ==
    IF r = "err" THEN Panic ELSE IF r = "fail" THEN Exit(1) ELSE Goto("resolve")

\* lines 72-75
OnResolve(ok) == IF ok THEN Goto("loop") ELSE Panic

\* variant: an empty sequence is reported as a failure
OnLoopEmptyIsError(i, bs) ==
    IF i < Len(bs) THEN Goto("merge") ELSE IF Len(bs) = 0 THEN Exit(1) ELSE Exit(0)

\* lines 77-81: take the next branch, or return from main
OnLoop(i, bs) == IF i < Len(bs) THEN Goto("merge") ELSE Exit(0)

\* variant: the Vec is walked from its end
NextBranchReversed(i, bs) == bs[Len(bs) - i]

\* line 77: the item the Vec's iterator yields after i items
NextBranch(i, bs) == bs[i + 1]

\* variant: the exit status of git merge is not looked at
OnMergeIgnoresFailure(r) == IF r = "err" THEN Panic ELSE Goto("loop")

\* variant: the branch list is asked for again after a merge
OnMergeResolvesAgain(r) ==
    IF r = "err" THEN Panic ELSE IF r = "fail" THEN Goto("status") ELSE Goto("resolve")

\* lines 112-115 and 138
OnMerge(r) ==
    IF r = "err" THEN Panic ELSE IF r = "fail" THEN Goto("status") ELSE Goto("loop")

\* lines 116-120
Dirty(sts) == \E k \in 1..Len(sts) : sts[k] = CONFLICTED

\* variant: the conflict is reported but the loop goes on
OnStatusNoExit(d) == IF d THEN Goto("loop") ELSE Goto("commit")

\* lines 122-129
OnStatus(d) == IF d THEN Exit(1) ELSE Goto("commit")

\* variant: a failed commit is tried again
OnCommitRetries(r) ==
    IF r = "err" THEN Panic ELSE IF r = "fail" THEN Goto("commit") ELSE Goto("loop")

\* variant: the exit status of git commit is not looked at
OnCommitIgnoresFailure(r) == IF r = "err" THEN Panic ELSE Goto("loop")

\* variant: the test of the commit's success is inverted
OnCommitInverted(r) ==
    IF r = "err" THEN Panic ELSE IF r = "ok" THEN Exit(1) ELSE Goto("loop")

\* lines 131-137
OnCommit(r) ==
    IF r = "err" THEN Panic ELSE IF r = "fail" THEN Exit(1) ELSE Goto("loop")

\* a path is unmerged when its status has the conflicted bit
HasUnmerged(sts) == \E k \in 1..Len(sts) : "CONFLICTED" \in sts[k]

\* git commit refuses to record a commit while the index holds unmerged
\* paths, so it cannot report success then
CommitResults(sts) == IF HasUnmerged(sts) THEN SubResults \ {"ok"} ELSE SubResults

----------------------------------------------------------------------------
(* Steps *)

Init ==
    /\ args \in ArgLists
    /\ remote_head \in RemoteHeads
    /\ dest_start = <<>>
    /\ pc = "args"
    /\ exit_status = <<>>
    /\ dest_branch = <<>>
    /\ response = <<>>
    /\ branches = <<>>
    /\ idx = 0
    /\ branch = <<>>
    /\ statuses = <<>>
    /\ log = <<>>
    /\ out = <<>>

Step(s) == pc' = s.pc /\ exit_status' = s.exit

\* lines 24-34
ReadArgs ==
    /\ pc = "args"
    /\ Step(OnArgs(args))
    /\ dest_branch' = IF Len(args) >= 2 THEN <<args[2]>> ELSE <<>>
    /\ out' = IF Len(args) = 0
                THEN Append(out, Line("stderr", "No github label provided", <<>>))
              ELSE IF Len(args) = 1
                THEN Append(out, Line("stderr", "No branch provided", <<>>))
              ELSE out
    /\ UNCHANGED <<args, remote_head, dest_start, response, branches, idx, branch, statuses, log>>

\* lines 36-54: current_dir, Repository::discover, find_remote, Repo::new
OpenRepo ==
    /\ pc = "open"
    /\ \E r \in {"ok", "current_dir", "discover", "find_remote", "Repo::new"} :
          /\ Step(IF r = "ok" THEN Goto("config") ELSE Panic)
          /\ out' = IF r = "ok" THEN out
                    ELSE IF r = "Repo::new"
                      THEN Append(out, Line("stderr", "Could not build remote info", <<>>))
                    ELSE Append(out, Line("stderr", "error", <<>>))
    /\ UNCHANGED <<args, remote_head, dest_start, dest_branch, response, branches, idx, branch, statuses, log>>

\* lines 56-59
ReadConfig ==
    /\ pc = "config"
    /\ \E r \in {"ok", "no_config", "no_token"} :
          /\ Step(IF r = "ok" THEN Goto("fetch") ELSE Panic)
          /\ out' = IF r = "ok" THEN out
                    ELSE IF r = "no_config"
                      THEN Append(out, Line("stderr",
                             "Could not find a git configuration file!", <<>>))
                    ELSE Append(out, Line("stderr",
                             "Could not find integrate.github-token in any git configuration file!",
                             <<>>))
    /\ UNCHANGED <<args, remote_head, dest_start, dest_branch, response, branches, idx, branch, statuses, log>>

\* lines 61-63, 141-143
GitFetch ==
    /\ pc = "fetch"
    /\ \E r \in SubResults :
          /\ log' = Append(log, LogEntry("fetch", 0, <<>>, r, <<>>))
          /\ Step(OnFetch(r))
          /\ out' = IF r = "err"
                      THEN Append(out, Line("stderr", "Error fetching from remote", <<>>))
                    ELSE out
    /\ UNCHANGED <<args, remote_head, dest_start, dest_branch, response, branches, idx, branch, statuses>>

\* lines 65-70, 145-153
GitCheckout ==
    /\ pc = "checkout"
    /\ \E r \in SubResults :
          /\ log' = Append(log, LogEntry("checkout", 0, dest_branch, r, <<>>))
          /\ Step(OnCheckout(r))
          /\ out' = IF r = "err"
                      THEN Append(out, Line("stderr", "Could not checkout branch", dest_branch))
                    ELSE out
          /\ dest_start' = IF r = "ok" THEN <<CheckoutStartPoint>> ELSE dest_start
    /\ UNCHANGED <<args, remote_head, dest_branch, response, branches, idx, branch, statuses>>

\* lines 72-75, 83-109: the request fails or cannot be decoded (Err), or a
\* response is decoded and its head names collected
Resolve ==
    /\ pc = "resolve"
    /\ \/ /\ log' = Append(log, LogEntry("resolve", 0, <<>>, "err", <<>>))
          /\ Step(OnResolve(FALSE))
          /\ out' = Append(out, Line("stderr", "error", <<>>))
          /\ UNCHANGED <<response, branches>>
       \/ \E resp \in Responses :
          /\ log' = Append(log, LogEntry("resolve", 0, <<>>, "ok", <<>>))
          /\ Step(OnResolve(TRUE))
          /\ response' = <<resp>>
          /\ branches' = Branches(resp)
          /\ UNCHANGED out
    /\ UNCHANGED <<args, remote_head, dest_start, dest_branch, idx, branch, statuses>>

\* lines 77-78 and the return from main at 81
LoopNext ==
    /\ pc = "loop"
    /\ Step(OnLoop(idx, branches))
    /\ IF idx < Len(branches)
         THEN /\ idx' = idx + 1
              /\ branch' = <<NextBranch(idx, branches)>>
              /\ out' = Append(out, MergingLine(branch'))
         ELSE UNCHANGED <<idx, branch, out>>
    /\ UNCHANGED <<args, remote_head, dest_start, dest_branch, response, branches, statuses, log>>

\* lines 112-115, 155-164
GitMerge ==
    /\ pc = "merge"
    /\ \E r \in SubResults :
          /\ log' = Append(log, LogEntry("merge", idx, branch, r, <<>>))
          /\ Step(OnMerge(r))
          /\ out' = IF r = "err"
                      THEN Append(out, Line("stderr", "Failure merging branch", branch))
                    ELSE out
    /\ UNCHANGED <<args, remote_head, dest_start, dest_branch, response, branches, idx, branch, statuses>>

\* lines 116-129
StatusQuery ==
    /\ pc = "status"
    /\ \/ /\ log' = Append(log, LogEntry("status", idx, <<>>, "err", <<>>))
          /\ Step(Panic)
          /\ out' = Append(out, Line("stderr", "Error checking dirty repository", <<>>))
          /\ UNCHANGED statuses
       \/ \E sts \in StatusLists :
          /\ log' = Append(log, LogEntry("status", idx, <<>>, "ok", sts))
          /\ statuses' = sts
          /\ Step(OnStatus(Dirty(sts)))
          /\ out' = IF OnStatus(Dirty(sts)).pc = "exited"
                      THEN Append(out, ConflictLine)
                    ELSE out
    /\ UNCHANGED <<args, remote_head, dest_start, dest_branch, response, branches, idx, branch>>

\* lines 131-137, 166-168
GitCommit ==
    /\ pc = "commit"
    /\ \E r \in CommitResults(statuses) :
          /\ log' = Append(log, LogEntry("commit", idx, <<>>, r, <<>>))
          /\ Step(OnCommit(r))
          /\ out' = IF r = "err"
                      THEN Append(out, Line("stderr", "Failure merging branch", branch))
                    ELSE IF OnCommit(r).pc = "exited"
                      THEN Append(out, CommitFailureLine(branch))
                    ELSE out
    /\ UNCHANGED <<args, remote_head, dest_start, dest_branch, response, branches, idx, branch, statuses>>

Next ==
    \/ ReadArgs
    \/ OpenRepo
    \/ ReadConfig
    \/ GitFetch
    \/ GitCheckout
    \/ Resolve
    \/ LoopNext
    \/ GitMerge
    \/ StatusQuery
    \/ GitCommit

Spec == Init /\ [][Next]_vars

\* every external call returns, so the sequential process always takes its
\* next step
FairSpec == Spec /\ WF_vars(Next)

----------------------------------------------------------------------------
(* Vocabulary of the properties *)

Terminated == pc = "exited"

\* the log entries of one kind, in order
OpsOf(kind) == SelectSeq(log, LAMBDA e : e.op = kind)

\* the log entries of loop iteration i, in order
OpsOfBranch(i) == SelectSeq(log, LAMBDA e : e.i = i)

\* the kinds and results of a sequence of log entries
Shape(es) == [k \in 1..Len(es) |-> <<es[k].op, es[k].res>>]

\* some path of a status list is in a conflicted state
ConflictedPaths(sts) == \E k \in 1..Len(sts) : "CONFLICTED" \in sts[k]

----------------------------------------------------------------------------
----------------------------------------------------------------------------
(* C2: the branches handed to git merge, in the order of the calls, are a  *)
(* prefix of the resolved sequence: the k-th merge is of the k-th resolved *)
(* name, repeated names included.                                          *)
MergeOrderIsResolutionOrder ==
    LET merges == OpsOf("merge")
    IN  /\ Len(merges) <= Len(branches)
        /\ \A k \in 1..Len(merges) :
              /\ merges[k].arg = <<branches[k]>>
              /\ merges[k].i = k

\* three merges were attempted, two of them of the same name
MergeOrderWitness ==
    LET merges == OpsOf("merge")
    IN  /\ Len(merges) = 3
        /\ branches[1] = branches[3]
        /\ branches[1] # branches[2]

----------------------------------------------------------------------------
(* C3 as stated: every run that ends in failure ends with status exactly 1 *)
EveryFailureExitsOne ==
    (Terminated /\ exit_status # <<0>>) => exit_status = <<1>>

\* the step that ended the run reported a failure the code answers with
\* process::exit(1): fetch, checkout or commit ran and failed, or the status
\* check found a conflict
LastOpExitsOne ==
    /\ Len(log) > 0
    /\ LET last == log[Len(log)]
       IN  \/ last.op \in {"fetch", "checkout", "commit"} /\ last.res = "fail"
           \/ /\ last.op = "status"
              /\ last.res = "ok"
              /\ \E k \in 1..Len(last.st) : last.st[k] = {"CONFLICTED"}

(* C3 amended: a run that ends in failure ends with status 1 exactly when  *)
(* a git subprocess that ran reported failure (fetch, checkout, commit) or *)
(* the status check found a conflict, and with the panic status 101 in     *)
(* every other failure (missing argument, missing credential, resolution   *)
(* error, a subprocess that could not be run, a failed status query).      *)
FailureExitStatusByKind ==
    (Terminated /\ exit_status # <<0>>)
    => /\ exit_status \in {<<1>>, <<PanicStatus>>}
       /\ exit_status = <<1>> <=> LastOpExitsOne

\* a failed checkout ended the run with status 1
FailureExitStatusWitness ==
    /\ Terminated
    /\ exit_status = <<1>>
    /\ Len(log) = 2
    /\ log[2].op = "checkout"
    /\ log[2].res = "fail"

----------------------------------------------------------------------------
(* C4: a run ends with status 0 exactly when fetch, checkout and           *)
(* resolution succeeded and every resolved branch ended Clean: its merge   *)
(* succeeded, or its merge failed, the status query showed no conflicted   *)
(* path and the commit succeeded.                                          *)
CleanOutcome(i) ==
    LET ops == OpsOfBranch(i)
    IN  \/ Shape(ops) = << <<"merge", "ok">> >>
        \/ /\ Shape(ops) = << <<"merge", "fail">>, <<"status", "ok">>,
                              <<"commit", "ok">> >>
           /\ ~ConflictedPaths(ops[2].st)

PrerequisitesSucceeded ==
    /\ Len(log) >= 3
    /\ Shape(SubSeq(log, 1, 3)) =
          << <<"fetch", "ok">>, <<"checkout", "ok">>, <<"resolve", "ok">> >>

----------------------------------------------------------------------------
(* C5: a response whose data, repository or node list is null, or whose    *)
(* node list is empty, resolves to the empty sequence without error; the   *)
(* run then performs fetch, checkout and the request and nothing else, and *)
(* ends with status 0.                                                     *)
NothingMatched(resp) ==
    \/ resp.data = <<>>
    \/ resp.data[1].repository = <<>>
    \/ resp.data[1].repository[1].pull_requests.nodes = <<>>
    \/ resp.data[1].repository[1].pull_requests.nodes[1] = <<>>

EmptyResolutionSucceeds ==
    (response # <<>> /\ NothingMatched(response[1]))
    => /\ branches = <<>>
       /\ Shape(log) =
             << <<"fetch", "ok">>, <<"checkout", "ok">>, <<"resolve", "ok">> >>
       /\ pc \in {"loop", "exited"}
       /\ Terminated => exit_status = <<0>>

\* a run whose response had no repository has ended
EmptyResolutionWitness ==
    /\ Terminated
    /\ response = << [data |-> << [repository |-> <<>>] >>] >>
    /\ exit_status = <<0>>

----------------------------------------------------------------------------
(* C6: the resolved sequence is the head names of the non-null entries of  *)
(* the response's node list, in the order of the list; null entries are    *)
(* left out and the resolution is a success.                               *)
NodeListOf(resp) ==
    IF NothingMatched(resp) THEN <<>>
    ELSE resp.data[1].repository[1].pull_requests.nodes[1]

PartialDataTolerance ==
    response # <<>>
    => LET present == SelectSeq(NodeListOf(response[1]), LAMBDA e : e # <<>>)
       IN  /\ branches = [k \in 1..Len(present) |-> present[k][1].head_ref_name]
           /\ log[Len(OpsOf("fetch")) + Len(OpsOf("checkout")) + 1].op = "resolve"
           /\ log[Len(OpsOf("fetch")) + Len(OpsOf("checkout")) + 1].res = "ok"
           /\ pc # "resolve"
           /\ (Terminated /\ Len(log) = 3) => exit_status = <<0>>

\* a null entry between two named entries was left out
PartialDataWitness ==
    /\ response # <<>>
    /\ ~NothingMatched(response[1])
    /\ LET ns == NodeListOf(response[1])
       IN  /\ Len(ns) = 3
           /\ ns[1] # <<>>
           /\ ns[2] = <<>>
           /\ ns[3] # <<>>
    /\ Len(branches) = 2

----------------------------------------------------------------------------
(* C7: what follows a failed merge is decided by the status check: when it *)
(* finds a conflict the run ends with status 1, otherwise the commit is    *)
(* run; and after a commit that succeeded the run goes on with the merge   *)
(* of the next resolved branch, or ends with status 0 after the last one.  *)
CheckFindsConflict(sts) == \E k \in 1..Len(sts) : sts[k] = {"CONFLICTED"}

CleanAfterFinalizingCommit ==
    \A k \in 1..Len(log) :
       /\ (log[k].op = "status" /\ log[k].res = "ok")
          => /\ log[k - 1].op = "merge" /\ log[k - 1].res = "fail"
             /\ IF CheckFindsConflict(log[k].st)
                  THEN k = Len(log) /\ Terminated /\ exit_status = <<1>>
                ELSE IF k = Len(log)
                  THEN pc = "commit"
                ELSE log[k + 1].op = "commit" /\ log[k + 1].i = log[k].i
       /\ (log[k].op = "commit" /\ log[k].res = "ok")
          => /\ log[k - 1].op = "status"
             /\ ~CheckFindsConflict(log[k - 1].st)
             /\ IF k < Len(log)
                  THEN /\ log[k + 1].op = "merge"
                       /\ log[k + 1].i = log[k].i + 1
                       /\ log[k + 1].arg = <<branches[log[k].i + 1]>>
                ELSE \/ pc = "loop" /\ idx = log[k].i
                     \/ pc = "merge" /\ idx = log[k].i + 1
                     \/ Terminated /\ exit_status = <<0>> /\ log[k].i = Len(branches)

\* a successful commit after a failed merge was followed by the next merge
CleanAfterCommitWitness ==
    \E k \in 1..Len(log) :
       /\ log[k].op = "commit"
       /\ log[k].res = "ok"
       /\ k < Len(log)
       /\ log[k + 1].op = "merge"

----------------------------------------------------------------------------
(* C8: when a merge failed, no path is conflicted and the commit fails     *)
(* too, the commit is the last operation of the run: the failure line      *)
(* naming that branch is the last line printed, the process has ended with *)
(* status 1 and no later branch was merged.                                *)
CommitFailedAborts ==
    \A k \in 1..Len(log) :
       (/\ log[k].op = "commit"
        /\ log[k].res = "fail"
        /\ ~ConflictedPaths(log[k - 1].st))
       => /\ log[k - 2].op = "merge" /\ log[k - 2].res = "fail"
          /\ k = Len(log)
          /\ Terminated
          /\ exit_status = <<1>>
          /\ idx = log[k].i
          /\ Len(OpsOf("merge")) = log[k].i
          /\ Len(out) > 0
          /\ out[Len(out)] =
                Line("stdout", "Failure mergeing branch", <<branches[log[k].i]>>)

\* the commit of a branch that is not the last one failed
CommitFailedWitness ==
    /\ Terminated
    /\ Len(log) > 0
    /\ log[Len(log)].op = "commit"
    /\ log[Len(log)].res = "fail"
    /\ ~ConflictedPaths(log[Len(log) - 1].st)
    /\ log[Len(log)].i < Len(branches)

----------------------------------------------------------------------------
(* C9: after a missing argument or a missing credential the process has    *)
(* ended with a status other than 0 and no git subprocess and no network   *)
(* call has been made.                                                     *)
CredentialMessages ==
    {"Could not find a git configuration file!",
     "Could not find integrate.github-token in any git configuration file!"}

ConfigErrorBeforeAnyOperation ==
    ((pc # "args" /\ Len(args) < 2)
     \/ \E k \in 1..Len(out) : out[k].msg \in CredentialMessages)
    => /\ Terminated
       /\ exit_status \notin {<<>>, <<0>>}
       /\ log = <<>>

\* the credential was missing
ConfigErrorWitness ==
    /\ Terminated
    /\ Len(args) = 2
    /\ Len(out) = 1
    /\ out[1].msg = "Could not find integrate.github-token in any git configuration file!"
    /\ log = <<>>

----------------------------------------------------------------------------
(* C10: the request for the branch list is made at most once, and when a   *)
(* merge has been attempted exactly one request was made, it succeeded and *)
(* it came before the first merge.                                         *)
ResolvedOnceBeforeMerging ==
    /\ Len(OpsOf("resolve")) <= 1
    /\ (OpsOf("merge") # <<>>)
       => /\ Len(OpsOf("resolve")) = 1
          /\ \E p \in 1..Len(log) :
                /\ log[p].op = "resolve"
                /\ log[p].res = "ok"
                /\ \A q \in 1..Len(log) : log[q].op = "merge" => p < q

\* two merges were attempted
ResolvedOnceWitness ==
    /\ Len(OpsOf("merge")) >= 2
    /\ Len(OpsOf("resolve")) = 1

----------------------------------------------------------------------------
(* C11: a fetch, a checkout or a resolution that did not succeed is the    *)
(* last operation of the run: nothing is performed after it and the        *)
(* process has ended with a status other than 0.                           *)
PrerequisiteFailureIsFatal ==
    \A k \in 1..Len(log) :
       (log[k].op \in {"fetch", "checkout", "resolve"} /\ log[k].res # "ok")
       => /\ k = Len(log)
          /\ OpsOf("merge") = <<>>
          /\ log[k].op = "fetch" => OpsOf("checkout") = <<>> /\ OpsOf("resolve") = <<>>
          /\ log[k].op = "checkout" => OpsOf("resolve") = <<>>
          /\ Terminated
          /\ exit_status \notin {<<>>, <<0>>}

\* the resolution failed after a successful fetch and checkout
PrerequisiteFailureWitness ==
    /\ Terminated
    /\ Len(log) = 3
    /\ log[3].op = "resolve"
    /\ log[3].res = "err"

----------------------------------------------------------------------------
(* C13 as stated: after a fetch, checkout, merge, commit or request that   *)
(* reported failure no later step is executed.                             *)
NeverProceedsPastFailedStep ==
    \A k \in 1..Len(log) :
       (/\ log[k].op \in {"fetch", "checkout", "merge", "commit", "resolve"}
        /\ log[k].res # "ok")
       => k = Len(log)

(* C13 amended: a step that failed is the last step of the run and the     *)
(* process ends with a status other than 0, except a merge that ran and    *)
(* reported failure, which is followed by the status query of the same     *)
(* branch.                                                                 *)
ProceedsOnlyPastFailedMerge ==
    \A k \in 1..Len(log) :
       log[k].res # "ok"
       => IF log[k].op = "merge" /\ log[k].res = "fail"
            THEN IF k = Len(log)
                   THEN pc = "status"
                 ELSE log[k + 1].op = "status" /\ log[k + 1].i = log[k].i
          ELSE /\ k = Len(log)
               /\ Terminated
               /\ exit_status \notin {<<>>, <<0>>}

\* a failed merge was followed by the status query and the commit
ProceedsPastFailedMergeWitness ==
    \E k \in 1..Len(log) :
       /\ log[k].op = "merge"
       /\ log[k].res = "fail"
       /\ k + 2 <= Len(log)
       /\ log[k + 2].op = "commit"

----------------------------------------------------------------------------
(* C14: after a failed merge, whenever some path of the status list is in  *)
(* a conflicted state, with or without further flags, the run is           *)
(* classified Conflict: the guidance is the last line printed, the process *)
(* has ended with status 1 and no commit was attempted.                    *)
ConflictWheneverAnyPathConflicted ==
    \A k \in 1..Len(log) :
       (log[k].op = "status" /\ log[k].res = "ok" /\ ConflictedPaths(log[k].st))
       => /\ k = Len(log)
          /\ Terminated
          /\ exit_status = <<1>>
          /\ Len(out) > 0
          /\ out[Len(out)] = ConflictLine

----------------------------------------------------------------------------
(* C15: the operations of one branch are merge, or merge and status query, *)
(* or merge, status query and commit, in that order; the status query      *)
(* follows a merge that reported failure and the commit follows a status   *)
(* query that showed no conflicted path.                                   *)
Kinds(es) == [k \in 1..Len(es) |-> es[k].op]

IsPrefix(s, u) == Len(s) <= Len(u) /\ s = SubSeq(u, 1, Len(s))

PerBranchOperations ==
    \A i \in 1..idx :
       LET ops == OpsOfBranch(i)
       IN  /\ IsPrefix(Kinds(ops), <<"merge", "status", "commit">>)
           /\ (ops = <<>>) => (i = idx /\ pc = "merge")
           /\ Len(ops) >= 2 => ops[1].res = "fail"
           /\ Len(ops) = 3 => ops[2].res = "ok" /\ ~ConflictedPaths(ops[2].st)

----------------------------------------------------------------------------
(* C16: fetch, checkout and request happen at most once each and in that   *)
(* order, each after the success of the one before; every merge comes      *)
(* after all three succeeded; and once the process has ended no step is    *)
(* possible.                                                               *)
RunFollowsStateOrder ==
    /\ \A k \in 1..Len(log) :
          /\ log[k].op = "fetch" => k = 1
          /\ log[k].op = "checkout" => k = 2 /\ Shape(log)[1] = <<"fetch", "ok">>
          /\ log[k].op = "resolve" => k = 3 /\ Shape(log)[2] = <<"checkout", "ok">>
          /\ log[k].op \in {"merge", "status", "commit"}
             => k > 3 /\ PrerequisitesSucceeded
    /\ Terminated => ~ENABLED Next
    /\ exit_status # <<>> <=> Terminated

\* a run ended after the merges of two branches
StateOrderWitness ==
    /\ Terminated
    /\ PrerequisitesSucceeded
    /\ Len(OpsOf("merge")) = 2
    /\ Len(branches) = 2

----------------------------------------------------------------------------
(* C19: the "Merging" lines printed name the branches taken by the loop,   *)
(* in order; there is one line for every merge attempted, and one more     *)
(* while the merge of the branch just announced has not been run; a run    *)
(* whose merges all succeeded ends with one such line per resolved branch  *)
(* and without the conflict guidance.                                      *)
MergingLines == SelectSeq(out, LAMBDA l : l.msg = "Merging")

ProgressBeforeEachMerge ==
    /\ [k \in 1..Len(MergingLines) |-> MergingLines[k].names]
          = [k \in 1..idx |-> <<branches[k]>>]
    /\ \A k \in 1..Len(MergingLines) : MergingLines[k].stream = "stdout"
    /\ Len(MergingLines) = Len(OpsOf("merge")) + (IF pc = "merge" THEN 1 ELSE 0)
    /\ (Terminated /\ exit_status = <<0>>)
       => /\ Len(MergingLines) = Len(branches)
          /\ \A k \in 1..Len(out) : out[k] # ConflictLine

\* two branches merged cleanly: two lines, in order, and status 0
ProgressWitness ==
    /\ Terminated
    /\ exit_status = <<0>>
    /\ Shape(OpsOf("merge")) = << <<"merge", "ok">>, <<"merge", "ok">> >>
    /\ branches = <<"feature-a", "feature-b">>
    /\ out = << MergingLine(<<"feature-a">>), MergingLine(<<"feature-b">>) >>

----------------------------------------------------------------------------
(* C17: when every external call returns, every run ends (Done or          *)
(* Aborted), and at no time has a branch of the resolved sequence been     *)
(* given more than one merge attempt, one status query and one commit.     *)
BoundedWorkPerBranch ==
    /\ \A k \in 1..Len(log) : log[k].i <= Len(branches)
    /\ \A i \in 1..Len(branches) :
          \A kind \in {"merge", "status", "commit"} :
             Len(SelectSeq(OpsOfBranch(i), LAMBDA e : e.op = kind)) <= 1

EventuallyTerminates == []BoundedWorkPerBranch /\ <>Terminated

\* a run of three branches ended after merge, status query and commit of
\* each of them
TerminationWitness ==
    /\ Terminated
    /\ Len(branches) = 3
    /\ Len(log) = 12
    /\ exit_status = <<0>>

----------------------------------------------------------------------------
(* C12: a run resets the destination branch to the tip of the remote's     *)
(* default branch, so that a re-run with the same label, destination and   *)
(* remote starts from the same point as the run before it.                 *)
ResetsToRemoteDefaultBranch ==
    (Len(log) >= 2 /\ log[2].op = "checkout" /\ log[2].res = "ok")
    => dest_start = <<remote_head>>

----------------------------------------------------------------------------
(* C18 as stated: a run that ended in failure after a fetch failure, a     *)
(* checkout failure, a resolution error, a merge conflict or a commit      *)
(* failure printed a failure message last, and for a conflict or a commit  *)
(* failure that message names the branch being merged.                     *)
FailureMessageBeforeExit ==
    (Terminated /\ exit_status # <<0>> /\ Len(log) > 0)
    => LET last == log[Len(log)]
       IN  /\ Len(out) > 0
           /\ out[Len(out)].msg # "Merging"
           /\ (last.op \in {"status", "commit"} /\ last.res # "err")
              => out[Len(out)].names = <<branches[last.i]>>

(* C18 amended: a resolution error and every other panic print the panic   *)
(* message; a conflict prints the guidance, which names no branch and      *)
(* follows the "Merging" line of the branch; a commit failure prints the   *)
(* failure line naming the branch; a fetch or checkout that ran and failed *)
(* ends the run without any line printed by the program.                   *)
FailureMessagesByKind ==
    (Terminated /\ exit_status # <<0>> /\ Len(log) > 0)
    => LET last == log[Len(log)]
       IN  IF last.op \in {"fetch", "checkout"} /\ last.res = "fail"
             THEN out = <<>>
           ELSE /\ Len(out) > 0
                /\ IF last.res = "err"
                     THEN /\ out[Len(out)].stream = "stderr"
                          /\ out[Len(out)].names =
                                (IF last.op \in {"merge", "commit"}
                                   THEN <<branches[last.i]>>
                                 ELSE IF last.op = "checkout" THEN dest_branch
                                 ELSE <<>>)
                   ELSE IF last.op = "status"
                     THEN /\ out[Len(out)] = ConflictLine
                          /\ out[Len(out)].names = <<>>
                          /\ out[Len(out) - 1] = MergingLine(<<branches[last.i]>>)
                   ELSE /\ last.op = "commit"
                        /\ out[Len(out)] =
                              Line("stdout", "Failure mergeing branch",
                                   <<branches[last.i]>>)

\* the conflict guidance ended a run at its second branch
FailureMessagesWitness ==
    /\ Terminated
    /\ exit_status = <<1>>
    /\ Len(out) = 3
    /\ out[3] = ConflictLine
    /\ out[2].msg = "Merging"

====
